---------------------------- MODULE Spec2Model ----------------------------
(***************************************************************************)
(* Model of the usdtapi service: the settings cache and its store, the     *)
(* processed_transactions table, and the POST /api/deposit/txid handler    *)
(* with its suspension at the deposit-history call.                        *)
(*                                                                         *)
(* JavaScript values are records [t, n, s]: t is the typeof tag, n the     *)
(* numeric payload (number, boolean), s the characters of a string.        *)
(* A string is a sequence of characters; the word "Off-chain transfer" is  *)
(* one character of the alphabet, the space after it is another.           *)
(***************************************************************************)
EXTENDS Integers, Sequences, FiniteSets, TLC

VARIABLES
    KES_PER_USDT,            \* in-memory rate (part_003:13)
    MIN_DEPOSIT_AMOUNT,      \* in-memory minimum deposit (part_003:26)
    MIN_WITHDRAWAL_AMOUNT,   \* in-memory minimum withdrawal (part_003:39)
    settings,                \* settings table: key -> value string or null
    processed_transactions,  \* set of rows of the processed_transactions table
    deposits,                \* index of the history the exchange currently serves
    reqs,                    \* the POST /api/deposit/txid requests, by slot
    cfgResp,                 \* the last response of a settings endpoint
    nCfg,                    \* number of settings requests served so far
    lastValid,               \* per key: value of the last rule-satisfying POST of this process, -1 if none
    lastAccepted,            \* per key: value of the last POST answered 200, -1 if none
    boots,                   \* flips at every restart
    env,                     \* process.env: key -> string or undefined
    creds,                   \* which of BINANCE_API_KEY, BINANCE_API_SECRET are set
    wreqs                    \* the POST /api/withdraw requests, by slot

vars == <<KES_PER_USDT, MIN_DEPOSIT_AMOUNT, MIN_WITHDRAWAL_AMOUNT, settings,
          processed_transactions, deposits, reqs, cfgResp, nCfg, lastValid,
          lastAccepted, boots, env, creds, wreqs>>

cacheVars == <<KES_PER_USDT, MIN_DEPOSIT_AMOUNT, MIN_WITHDRAWAL_AMOUNT>>

-----------------------------------------------------------------------------
(* Bounds of the model *)

MaxReq == 2        \* submit-claim requests per behaviour
MaxCfg == 2        \* settings requests (GET or POST) per behaviour
MaxUpdates == 1    \* settings updates made while claims are submitted
MaxW == 1          \* withdrawal requests per behaviour
MaxStr == 3        \* length of the strings a claim quantifies over

-----------------------------------------------------------------------------
(* JavaScript values *)

JsUndefined == [t |-> "undefined", n |-> 0, s |-> <<>>]
JsNull == [t |-> "null", n |-> 0, s |-> <<>>]
JsNum(k) == [t |-> "number", n |-> k, s |-> <<>>]
JsBool(b) == [t |-> "boolean", n |-> IF b THEN 1 ELSE 0, s |-> <<>>]
JsStr(str) == [t |-> "string", n |-> 0, s |-> str]

\* a numeric result: NaN or an integer
NaN == [nan |-> TRUE, v |-> 0]
Num(k) == [nan |-> FALSE, v |-> k]

Digits == <<"0", "1", "2", "3", "4", "5", "6", "7", "8", "9">>
IsDigit(c) == \E i \in 1..10 : Digits[i] = c
DigitVal(c) == CHOOSE d \in 0..9 : Digits[d + 1] = c

RECURSIVE TrimStart(_)
TrimStart(str) ==
    IF str # <<>> /\ Head(str) = " " THEN TrimStart(Tail(str)) ELSE str

RECURSIVE TrimEnd(_)
TrimEnd(str) ==
    IF str # <<>> /\ str[Len(str)] = " "
    THEN TrimEnd(SubSeq(str, 1, Len(str) - 1))
    ELSE str

\* String.prototype.trim
Trim(str) == TrimEnd(TrimStart(str))

\* String.prototype.startsWith
StartsWith(str, p) ==
    /\ Len(str) >= Len(p)
    /\ SubSeq(str, 1, Len(p)) = p

RECURSIVE DigitsToNat(_)
DigitsToNat(str) ==
    IF str = <<>> THEN 0
    ELSE DigitsToNat(SubSeq(str, 1, Len(str) - 1)) * 10 + DigitVal(str[Len(str)])

AllDigits(str) == str # <<>> /\ \A i \in 1..Len(str) : IsDigit(str[i])

\* Number(string): surrounding whitespace ignored, "" is 0, a signed decimal
\* numeral is its value, anything else NaN
StringToNumber(str) ==
    LET t == Trim(str) IN
    IF t = <<>> THEN Num(0)
    ELSE IF AllDigits(t) THEN Num(DigitsToNat(t))
    ELSE IF Head(t) = "-" /\ AllDigits(Tail(t)) THEN Num(0 - DigitsToNat(Tail(t)))
    ELSE NaN

\* Number(value)
ToNumber(val) ==
    CASE val.t = "undefined" -> NaN
      [] val.t = "null" -> Num(0)
      [] val.t = "boolean" -> Num(val.n)
      [] val.t = "number" -> Num(val.n)
      [] val.t = "string" -> StringToNumber(val.s)

\* truthiness, as tested by !value
Truthy(val) ==
    CASE val.t = "undefined" -> FALSE
      [] val.t = "null" -> FALSE
      [] val.t = "boolean" -> val.n = 1
      [] val.t = "number" -> val.n # 0
      [] val.t = "string" -> val.s # <<>>

RECURSIVE NatToString(_)
NatToString(k) ==
    IF k < 10 THEN <<Digits[k + 1]>>
    ELSE NatToString(k \div 10) \o <<Digits[(k % 10) + 1]>>

\* String(number) of an integer
NumberToString(k) == IF k < 0 THEN <<"-">> \o NatToString(0 - k) ELSE NatToString(k)

-----------------------------------------------------------------------------
(* The settings table (db.js) *)

Keys == {"KES_PER_USDT", "MIN_DEPOSIT_AMOUNT", "MIN_WITHDRAWAL_AMOUNT"}

\* getSetting: the row's value, or null
getSetting(tbl, key) == tbl[key]

\* setSetting: upsert of String(value)
setSetting(tbl, key, value) == [tbl EXCEPT ![key] = JsStr(NumberToString(value))]

-----------------------------------------------------------------------------
(* Startup: the three initialisers of the in-memory settings *)

DefaultRate == 150
DefaultMinDeposit == 0
DefaultMinWithdrawal == 10

\* process.env.X || "<default>"
EnvOr(e, dflt) == IF Truthy(e) THEN e ELSE JsStr(dflt)

\* an initialiser that takes the environment's rate whatever the table holds
LoadRate_EnvFirst(tbl, e) ==
    LET fromEnv == ToNumber(EnvOr(e["KES_PER_USDT"], <<"1", "5", "0">>))
        initial == IF ~fromEnv.nan /\ fromEnv.v > 0 THEN fromEnv.v ELSE DefaultRate
    IN  [value |-> initial, tbl |-> setSetting(tbl, "KES_PER_USDT", initial)]

\* let KES_PER_USDT = (() => {...})(): the value, and the table it leaves
LoadRate(tbl, e) ==
    LET fromDb == getSetting(tbl, "KES_PER_USDT")
        n == ToNumber(fromDb)
        fromEnv == ToNumber(EnvOr(e["KES_PER_USDT"], <<"1", "5", "0">>))
        initial == IF ~fromEnv.nan /\ fromEnv.v > 0 THEN fromEnv.v ELSE DefaultRate
    IN  IF fromDb.t \notin {"null", "undefined"} /\ ~n.nan /\ n.v > 0
        THEN [value |-> n.v, tbl |-> tbl]
        ELSE [value |-> initial, tbl |-> setSetting(tbl, "KES_PER_USDT", initial)]

\* let MIN_DEPOSIT_AMOUNT = (() => {...})()
LoadMinDeposit(tbl, e) ==
    LET fromDb == getSetting(tbl, "MIN_DEPOSIT_AMOUNT")
        n == ToNumber(fromDb)
        fromEnv == ToNumber(EnvOr(e["MIN_DEPOSIT_AMOUNT"], <<"0">>))
        initial == IF ~fromEnv.nan /\ fromEnv.v >= 0 THEN fromEnv.v ELSE DefaultMinDeposit
    IN  IF fromDb.t \notin {"null", "undefined"} /\ ~n.nan /\ n.v >= 0
        THEN [value |-> n.v, tbl |-> tbl]
        ELSE [value |-> initial, tbl |-> setSetting(tbl, "MIN_DEPOSIT_AMOUNT", initial)]

\* an initialiser that takes any numeric row, whatever its sign
LoadMinWithdrawal_AnyRow(tbl, e) ==
    LET fromDb == getSetting(tbl, "MIN_WITHDRAWAL_AMOUNT")
        n == ToNumber(fromDb)
        fromEnv == ToNumber(EnvOr(e["MIN_WITHDRAWAL_AMOUNT"], <<"1", "0">>))
        initial == IF ~fromEnv.nan /\ fromEnv.v > 0 THEN fromEnv.v ELSE DefaultMinWithdrawal
    IN  IF fromDb.t \notin {"null", "undefined"} /\ ~n.nan
        THEN [value |-> n.v, tbl |-> tbl]
        ELSE [value |-> initial, tbl |-> setSetting(tbl, "MIN_WITHDRAWAL_AMOUNT", initial)]

\* let MIN_WITHDRAWAL_AMOUNT = (() => {...})()
LoadMinWithdrawal(tbl, e) ==
    LET fromDb == getSetting(tbl, "MIN_WITHDRAWAL_AMOUNT")
        n == ToNumber(fromDb)
        fromEnv == ToNumber(EnvOr(e["MIN_WITHDRAWAL_AMOUNT"], <<"1", "0">>))
        initial == IF ~fromEnv.nan /\ fromEnv.v > 0 THEN fromEnv.v ELSE DefaultMinWithdrawal
    IN  IF fromDb.t \notin {"null", "undefined"} /\ ~n.nan /\ n.v > 0
        THEN [value |-> n.v, tbl |-> tbl]
        ELSE [value |-> initial, tbl |-> setSetting(tbl, "MIN_WITHDRAWAL_AMOUNT", initial)]

\* module load of index.js: the three initialisers in order
Startup(tbl, e) ==
    LET r == LoadRate(tbl, e)
        d == LoadMinDeposit(r.tbl, e)
        w == LoadMinWithdrawal(d.tbl, e)
    IN  [rate |-> r.value, minDeposit |-> d.value, minWithdrawal |-> w.value,
         tbl |-> w.tbl]

\* the in-memory value of a key
Cache(key) ==
    CASE key = "KES_PER_USDT" -> KES_PER_USDT
      [] key = "MIN_DEPOSIT_AMOUNT" -> MIN_DEPOSIT_AMOUNT
      [] key = "MIN_WITHDRAWAL_AMOUNT" -> MIN_WITHDRAWAL_AMOUNT

-----------------------------------------------------------------------------
(* Settings endpoints *)

NoResp == [method |-> "none", key |-> "none", body |-> JsUndefined,
           http |-> 0, value |-> 0]

Response(method, key, body, http, value) ==
    [method |-> method, key |-> key, body |-> body,
     http |-> http, value |-> value]

\* the 400 guard of POST /api/rate
RateRejected(rate) ==
    \/ ~Truthy(rate)
    \/ ToNumber(rate).nan
    \/ ToNumber(rate).v <= 0

\* the 400 guard of POST /api/min-deposit
MinDepositRejected(minDepositAmount) ==
    \/ minDepositAmount.t \in {"null", "undefined"}
    \/ ToNumber(minDepositAmount).nan
    \/ ToNumber(minDepositAmount).v < 0

\* a guard that lets 0 through
MinWithdrawalRejected_AllowsZero(minWithdrawalAmount) ==
    \/ minWithdrawalAmount.t \in {"null", "undefined"}
    \/ ToNumber(minWithdrawalAmount).nan
    \/ ToNumber(minWithdrawalAmount).v < 0

\* the 400 guard of POST /api/min-withdrawal
MinWithdrawalRejected(minWithdrawalAmount) ==
    \/ minWithdrawalAmount.t \in {"null", "undefined"}
    \/ ToNumber(minWithdrawalAmount).nan
    \/ ToNumber(minWithdrawalAmount).v <= 0

\* what a POST handler leaves in the table: the statement runs or throws
RunSetSetting(key, value, storeOk) ==
    IF storeOk THEN setSetting(settings, key, value) ELSE settings

\* the ghost records of a POST whose value passed the guard
NoteValid(key, value, storeOk) ==
    /\ lastValid' = [lastValid EXCEPT ![key] = value]
    /\ lastAccepted' = IF storeOk THEN [lastAccepted EXCEPT ![key] = value]
                       ELSE lastAccepted

GetRate ==
    /\ nCfg < MaxCfg
    /\ nCfg' = nCfg + 1
    /\ cfgResp' = Response("GET", "KES_PER_USDT", JsUndefined, 200, KES_PER_USDT)
    /\ UNCHANGED <<cacheVars, settings, processed_transactions, deposits, reqs,
                   lastValid, lastAccepted, boots, env, creds, wreqs>>

GetMinDeposit ==
    /\ nCfg < MaxCfg
    /\ nCfg' = nCfg + 1
    /\ cfgResp' = Response("GET", "MIN_DEPOSIT_AMOUNT", JsUndefined, 200, MIN_DEPOSIT_AMOUNT)
    /\ UNCHANGED <<cacheVars, settings, processed_transactions, deposits, reqs,
                   lastValid, lastAccepted, boots, env, creds, wreqs>>

GetMinWithdrawal ==
    /\ nCfg < MaxCfg
    /\ nCfg' = nCfg + 1
    /\ cfgResp' = Response("GET", "MIN_WITHDRAWAL_AMOUNT", JsUndefined, 200,
                           MIN_WITHDRAWAL_AMOUNT)
    /\ UNCHANGED <<cacheVars, settings, processed_transactions, deposits, reqs,
                   lastValid, lastAccepted, boots, env, creds, wreqs>>

\* app.post("/api/rate"): storeOk is whether the setSetting statement runs
\* to completion; when it throws, the framework answers 500
PostRate(rate, storeOk) ==
    /\ nCfg < MaxCfg
    /\ nCfg' = nCfg + 1
    /\ IF RateRejected(rate)
       THEN /\ cfgResp' = Response("POST", "KES_PER_USDT", rate, 400, 0)
            /\ UNCHANGED <<cacheVars, settings, lastValid, lastAccepted>>
       ELSE LET n == ToNumber(rate).v IN
            /\ KES_PER_USDT' = n
            /\ settings' = RunSetSetting("KES_PER_USDT", n, storeOk)
            /\ cfgResp' = IF storeOk
                          THEN Response("POST", "KES_PER_USDT", rate, 200, KES_PER_USDT')
                          ELSE Response("POST", "KES_PER_USDT", rate, 500, 0)
            /\ NoteValid("KES_PER_USDT", n, storeOk)
            /\ UNCHANGED <<MIN_DEPOSIT_AMOUNT, MIN_WITHDRAWAL_AMOUNT>>
    /\ UNCHANGED <<processed_transactions, deposits, reqs, boots, env, creds, wreqs>>

\* app.post("/api/min-deposit")
PostMinDeposit(minDepositAmount, storeOk) ==
    /\ nCfg < MaxCfg
    /\ nCfg' = nCfg + 1
    /\ IF MinDepositRejected(minDepositAmount)
       THEN /\ cfgResp' = Response("POST", "MIN_DEPOSIT_AMOUNT", minDepositAmount, 400, 0)
            /\ UNCHANGED <<cacheVars, settings, lastValid, lastAccepted>>
       ELSE LET n == ToNumber(minDepositAmount).v IN
            /\ MIN_DEPOSIT_AMOUNT' = n
            /\ settings' = RunSetSetting("MIN_DEPOSIT_AMOUNT", n, storeOk)
            /\ cfgResp' = IF storeOk
                          THEN Response("POST", "MIN_DEPOSIT_AMOUNT", minDepositAmount,
                                        200, MIN_DEPOSIT_AMOUNT')
                          ELSE Response("POST", "MIN_DEPOSIT_AMOUNT", minDepositAmount,
                                        500, 0)
            /\ NoteValid("MIN_DEPOSIT_AMOUNT", n, storeOk)
            /\ UNCHANGED <<KES_PER_USDT, MIN_WITHDRAWAL_AMOUNT>>
    /\ UNCHANGED <<processed_transactions, deposits, reqs, boots, env, creds, wreqs>>

\* app.post("/api/min-withdrawal")
PostMinWithdrawal(minWithdrawalAmount, storeOk) ==
    /\ nCfg < MaxCfg
    /\ nCfg' = nCfg + 1
    /\ IF MinWithdrawalRejected(minWithdrawalAmount)
       THEN /\ cfgResp' = Response("POST", "MIN_WITHDRAWAL_AMOUNT", minWithdrawalAmount,
                                   400, 0)
            /\ UNCHANGED <<cacheVars, settings, lastValid, lastAccepted>>
       ELSE LET n == ToNumber(minWithdrawalAmount).v IN
            /\ MIN_WITHDRAWAL_AMOUNT' = n
            /\ settings' = RunSetSetting("MIN_WITHDRAWAL_AMOUNT", n, storeOk)
            /\ cfgResp' = IF storeOk
                          THEN Response("POST", "MIN_WITHDRAWAL_AMOUNT",
                                        minWithdrawalAmount, 200, MIN_WITHDRAWAL_AMOUNT')
                          ELSE Response("POST", "MIN_WITHDRAWAL_AMOUNT",
                                        minWithdrawalAmount, 500, 0)
            /\ NoteValid("MIN_WITHDRAWAL_AMOUNT", n, storeOk)
            /\ UNCHANGED <<KES_PER_USDT, MIN_DEPOSIT_AMOUNT>>
    /\ UNCHANGED <<processed_transactions, deposits, reqs, boots, env, creds, wreqs>>

-----------------------------------------------------------------------------
(* The processed_transactions table (db.js) *)

\* SELECT * FROM processed_transactions WHERE txId = ?: the rows found
getByTxId(tbl, txId) == {row \in tbl : row.txId = txId}

\* a table created without the UNIQUE constraint: the INSERT never throws
UniqueViolation_NoConstraint(tbl, txId) == FALSE

\* the UNIQUE constraint on txId: the INSERT throws when a row has this txId
UniqueViolation(tbl, txId) == getByTxId(tbl, txId) # {}

\* AUTOINCREMENT: one more than the largest id ever used (rows are never deleted)
NextId(tbl) == Cardinality(tbl) + 1

\* insert(record), when the statement runs
insert(tbl, record) ==
    tbl \cup {[id |-> NextId(tbl), txId |-> record.txId, asset |-> record.asset,
               amount |-> record.amount, rewardKes |-> record.rewardKes,
               confirmedAt |-> record.confirmedAt]}

-----------------------------------------------------------------------------
(* The exchange's deposit history *)

OffChain == "Off-chain transfer"

\* const OFF_CHAIN_PREFIX = "Off-chain transfer "
OFF_CHAIN_PREFIX == <<OffChain, " ">>

Deposit(txId, status, amount, insertTime) ==
    [txId |-> txId, status |-> status, amount |-> amount, insertTime |-> insertTime]

\* the histories the exchange can serve; insertTime 0 stands for a missing one
Histories == <<
    <<>>,
    <<Deposit(<<OffChain, " ", "A">>, 1, 9, 1)>>,
    <<Deposit(<<"A">>, 1, 10, 2)>>,
    <<Deposit(<<" ", OffChain, " ", "A">>, 0, 9, 1), Deposit(<<" ", "A", " ">>, 1, 10, 0)>>
>>

\* the values Date.now() can take
Times == {3}

-----------------------------------------------------------------------------
(* The signed request client (binanceClient.js) *)

\* What the exchange does with a request that reaches the network: status is
\* the HTTP status (0 when there is no HTTP response: timeout, connection
\* error), data tells whether the answer has a body, array whether a 2xx
\* body is an array, msg and message are the texts of an error body (<<>>
\* when absent), error is the text of the failure when there is no answer
Reply(status, data, array, msg, message) ==
    [status |-> status, data |-> data, array |-> array, msg |-> msg,
     message |-> message, error |-> <<>>]

\* the request fails without an answer, with this text as err.message
NetworkFailure(text) ==
    [Reply(0, FALSE, FALSE, <<>>, <<>>) EXCEPT !.error = text]

\* no answer yet
NoReply == Reply(-1, FALSE, FALSE, <<>>, <<>>)

ReplyOk == Reply(200, TRUE, TRUE, <<>>, <<>>)
Reply451 == Reply(451, FALSE, FALSE, <<>>, <<>>)
ReplyNetworkError == NetworkFailure(<<"timeout of 10000ms exceeded">>)

\* how the getDepositHistory call can end
UpstreamOutcomes == {ReplyOk, Reply451, ReplyNetworkError}

UpstreamText == <<"U", "p">>
OtherText == <<"O", "t">>

\* every way the exchange can answer the deposit-history request
UpstreamOutcomesAll == UpstreamOutcomes \cup {
    Reply(200, TRUE, FALSE, <<>>, <<>>),
    Reply(451, TRUE, FALSE, UpstreamText, <<>>),
    Reply(400, TRUE, FALSE, UpstreamText, OtherText),
    Reply(400, TRUE, FALSE, <<>>, OtherText),
    Reply(500, FALSE, FALSE, <<>>, <<>>)
}

\* the credentials the module reads from the environment when it is loaded
Credentials(key, secret) == [key |-> key, secret |-> secret]

\* a client whose guard looks at the key alone
NotConfigured_KeyOnly(c) == ~Truthy(c.key)

\* !BINANCE_API_KEY || !BINANCE_API_SECRET
NotConfigured(c) == ~Truthy(c.key) \/ ~Truthy(c.secret)

NotConfiguredMessage == <<"Binance API credentials are not configured">>

\* an Error: its message and, for an HTTP error answer, err.response (status
\* 0 when there is none) with its data
Thrown(message, status, data, msg, dataMessage) ==
    [ok |-> FALSE, message |-> message, status |-> status, data |-> data,
     msg |-> msg, dataMessage |-> dataMessage]

Resolved == [ok |-> TRUE, message |-> <<>>, status |-> 0, data |-> FALSE,
             msg |-> <<>>, dataMessage |-> <<>>]

\* binanceGet and binancePost before the request: the number of network
\* requests the call issues
Issued(c) == IF NotConfigured(c) THEN 0 ELSE 1

\* axios: a 2xx answer resolves, anything else rejects, with err.response
\* when the exchange answered
AxiosResult(reply) ==
    IF reply.status = 200 THEN Resolved
    ELSE IF reply.status = 0
    THEN Thrown(reply.error, 0, FALSE, <<>>, <<>>)
    ELSE Thrown(<<"Request failed with status code">>, reply.status, reply.data,
                IF reply.data THEN reply.msg ELSE <<>>,
                IF reply.data THEN reply.message ELSE <<>>)

\* binanceGet: the guard on the credentials, then the signed GET
binanceGet(c, reply) ==
    IF NotConfigured(c) THEN Thrown(NotConfiguredMessage, 0, FALSE, <<>>, <<>>)
    ELSE AxiosResult(reply)

\* binancePost: the guard on the credentials, then the signed POST
binancePost(c, reply) ==
    IF NotConfigured(c) THEN Thrown(NotConfiguredMessage, 0, FALSE, <<>>, <<>>)
    ELSE AxiosResult(reply)

\* getDepositHistory: binanceGet, then the Array.isArray test
getDepositHistory(c, reply) ==
    LET data == binanceGet(c, reply) IN
    IF ~data.ok THEN data
    ELSE IF ~reply.array
    THEN Thrown(<<"Unexpected Binance deposit history response format">>, 0, FALSE,
                <<>>, <<>>)
    ELSE Resolved

-----------------------------------------------------------------------------
(* POST /api/deposit/txid *)

\* the 400 guards: !txId || typeof txId !== "string", then !txIdTrimmed
TxIdRejected(txId) ==
    \/ ~Truthy(txId)
    \/ txId.t # "string"
    \/ Trim(txId.s) = <<>>

\* a normalisation that prepends the prefix whatever the string starts with
NormalizeTxId_AlwaysPrepend(txIdTrimmed) == OFF_CHAIN_PREFIX \o txIdTrimmed

\* normalizedTxId
NormalizeTxId(txIdTrimmed) ==
    IF StartsWith(txIdTrimmed, OFF_CHAIN_PREFIX)
    THEN txIdTrimmed
    ELSE OFF_CHAIN_PREFIX \o txIdTrimmed

\* a lookup of the submitted form alone
Existing_TrimmedOnly(tbl, normalizedTxId, txIdTrimmed) == getByTxId(tbl, txIdTrimmed)

\* const existing = getByTxId(normalizedTxId) || getByTxId(txIdTrimmed)
Existing(tbl, normalizedTxId, txIdTrimmed) ==
    IF getByTxId(tbl, normalizedTxId) # {}
    THEN getByTxId(tbl, normalizedTxId)
    ELSE getByTxId(tbl, txIdTrimmed)

\* a predicate that does not look at the status
IsMatch_AnyStatus(d, normalizedTxId, txIdTrimmed) ==
    \/ d.txId = normalizedTxId
    \/ Trim(d.txId) = normalizedTxId
    \/ d.txId = txIdTrimmed
    \/ Trim(d.txId) = txIdTrimmed

\* the predicate of deposits.find
IsMatch(d, normalizedTxId, txIdTrimmed) ==
    /\ \/ d.txId = normalizedTxId
       \/ Trim(d.txId) = normalizedTxId
       \/ d.txId = txIdTrimmed
       \/ Trim(d.txId) = txIdTrimmed
    /\ d.status = 1

\* deposits.find: the index of the first match, 0 when there is none
FindMatch(hist, normalizedTxId, txIdTrimmed) ==
    LET hits == {i \in 1..Len(hist) : IsMatch(hist[i], normalizedTxId, txIdTrimmed)}
    IN  IF hits = {} THEN 0 ELSE CHOOSE i \in hits : \A j \in hits : i <= j

\* a gate that also refuses an amount equal to the minimum
AmountTooLow_Inclusive(minDeposit, confirmedAmount) ==
    minDeposit > 0 /\ confirmedAmount <= minDeposit

\* MIN_DEPOSIT_AMOUNT > 0 && confirmedAmount < MIN_DEPOSIT_AMOUNT
AmountTooLow(minDeposit, confirmedAmount) ==
    minDeposit > 0 /\ confirmedAmount < minDeposit

\* const rewardKes = confirmedAmount * KES_PER_USDT
RewardKes(confirmedAmount, rate) == confirmedAmount * rate

\* a handler that reads the rate before its await and keeps it
RateAtMatch_Locked(q) == q.rateAtSubmit

\* the rate the handler multiplies by: the global, read after the await
RateAtMatch(q) == KES_PER_USDT

\* match.insertTime || Date.now()
ConfirmedAt(insertTime, now) == IF insertTime # 0 THEN insertTime ELSE now

IdleReq == [pc |-> "idle", body |-> JsUndefined, http |-> 0, status |-> "none",
            reason |-> "none", confirmedAmount |-> 0, rewardKes |-> 0,
            confirmedAt |-> 0, minDepositAmount |-> 0,
            rateAtSubmit |-> 0, fetched |-> FALSE, settledBefore |-> FALSE,
            message |-> <<>>, calls |-> 0, dbOps |-> 0, logged |-> <<>>,
            reply |-> NoReply]

TxIdTrimmedOf(q) == Trim(q.body.s)
NormalizedOf(q) == NormalizeTxId(TxIdTrimmedOf(q))

\* the request has returned status "complete" for this canonical identifier
SettledFor(q, normalizedTxId) ==
    q.pc = "done" /\ q.status = "complete" /\ NormalizedOf(q) = normalizedTxId

\* how a statement on the database can end: it runs, or it throws and the
\* rejection of the async handler either is answered 500 by the framework or
\* gets no answer at all
StoreOutcomes == {"ok", "http500", "no response"}

\* the number of SELECTs of getByTxId(normalizedTxId) || getByTxId(txIdTrimmed)
LookupCount(tbl, normalizedTxId) == IF getByTxId(tbl, normalizedTxId) # {} THEN 1 ELSE 2

\* a catch block that answers every failure as a verification error
CatchDeposit_No451(q, err) ==
    LET binanceMsg == IF err.msg # <<>> THEN err.msg ELSE err.dataMessage IN
    [q EXCEPT !.pc = "done", !.http = 200, !.status = "failed",
              !.logged = err.message,
              !.reason = "verification_error",
              !.message = IF binanceMsg # <<>> THEN binanceMsg
                          ELSE <<"Failed to verify transaction with Binance">>]

\* the catch block of the handler
CatchDeposit(q, err) ==
    LET binanceMsg == IF err.msg # <<>> THEN err.msg ELSE err.dataMessage IN
    IF err.status = 451
    THEN [q EXCEPT !.pc = "done", !.http = 200, !.status = "failed",
                   !.logged = err.message,
                   !.reason = "region_restricted",
                   !.message = <<"Binance API is not available in this region">>]
    ELSE [q EXCEPT !.pc = "done", !.http = 200, !.status = "failed",
                   !.logged = err.message,
                   !.reason = "verification_error",
                   !.message = IF binanceMsg # <<>> THEN binanceMsg
                               ELSE <<"Failed to verify transaction with Binance">>]

\* The handler up to its await: validation, the lookup of a prior settlement
\* and the call of getDepositHistory
SubmitStart(r, txId, lookup) ==
    /\ reqs[r].pc = "idle"
    /\ IF r = 1 THEN TRUE ELSE reqs[r - 1].pc # "idle"
    /\ LET q == [reqs[r] EXCEPT !.body = txId, !.rateAtSubmit = KES_PER_USDT]
           txIdTrimmed == Trim(txId.s)
           normalizedTxId == NormalizeTxId(txIdTrimmed)
           existing == Existing(processed_transactions, normalizedTxId, txIdTrimmed)
           row == CHOOSE x \in existing : TRUE
           looked == LookupCount(processed_transactions, normalizedTxId)
           settled == \E s \in DOMAIN reqs : SettledFor(reqs[s], normalizedTxId)
       IN  reqs' = [reqs EXCEPT ![r] =
             IF TxIdRejected(txId)
             THEN [q EXCEPT !.pc = "done", !.http = 400,
                            !.message = <<"txId is required">>]
             ELSE IF lookup # "ok"
             THEN [q EXCEPT !.pc = "done", !.status = "unhandled",
                            !.http = IF lookup = "http500" THEN 500 ELSE 0,
                            !.dbOps = 1]
             ELSE IF existing # {}
             THEN [q EXCEPT !.pc = "done", !.http = 200, !.status = "failed",
                            !.reason = "already_used",
                            !.message = <<"Transaction ID already used">>,
                            !.confirmedAmount = row.amount,
                            !.rewardKes = row.rewardKes,
                            !.confirmedAt = row.confirmedAt,
                            !.dbOps = looked,
                            !.settledBefore = settled]
             ELSE IF Issued(creds) = 0
             THEN \* the call throws before any request: the catch answers
                  CatchDeposit([q EXCEPT !.dbOps = looked, !.settledBefore = settled],
                               getDepositHistory(creds, ReplyOk))
             ELSE [q EXCEPT !.pc = "awaiting", !.dbOps = looked,
                            !.calls = Issued(creds),
                            !.settledBefore = settled]]
    /\ UNCHANGED <<cacheVars, settings, processed_transactions, deposits, cfgResp,
                   nCfg, lastValid, lastAccepted, boots, env, creds, wreqs>>

\* The handler from the return of getDepositHistory to its response
HistoryReturn(r, outcome, now, insertOk) ==
    /\ reqs[r].pc = "awaiting"
    /\ LET q == [reqs[r] EXCEPT !.pc = "done", !.http = 200, !.status = "failed",
                                !.reply = outcome]
           txIdTrimmed == TxIdTrimmedOf(q)
           normalizedTxId == NormalizedOf(q)
           res == getDepositHistory(creds, outcome)
           hist == Histories[deposits]
           m == FindMatch(hist, normalizedTxId, txIdTrimmed)
           confirmedAmount == hist[m].amount
           rewardKes == RewardKes(confirmedAmount, RateAtMatch(q))
           confirmedAt == ConfirmedAt(hist[m].insertTime, now)
       IN  IF ~res.ok
           THEN /\ reqs' = [reqs EXCEPT ![r] = CatchDeposit(q, res)]
                /\ UNCHANGED processed_transactions
           ELSE IF m = 0
           THEN /\ reqs' = [reqs EXCEPT ![r] =
                               [q EXCEPT !.reason = "not_found", !.fetched = TRUE,
                                         !.message = <<"Transaction not found or does not exist">>]]
                /\ UNCHANGED processed_transactions
           ELSE IF AmountTooLow(MIN_DEPOSIT_AMOUNT, confirmedAmount)
           THEN /\ reqs' = [reqs EXCEPT ![r] =
                               [q EXCEPT !.reason = "amount_too_low",
                                         !.fetched = TRUE,
                                         !.message = <<"Deposit amount is below minimum">>,
                                         !.minDepositAmount = MIN_DEPOSIT_AMOUNT,
                                         !.confirmedAmount = confirmedAmount]]
                /\ UNCHANGED processed_transactions
           ELSE IF UniqueViolation(processed_transactions, normalizedTxId) \/ ~insertOk
           THEN \* the INSERT throws inside the try: the catch answers
                /\ reqs' = [reqs EXCEPT ![r] =
                               CatchDeposit([q EXCEPT !.fetched = TRUE,
                                                      !.dbOps = q.dbOps + 1],
                                            Thrown(<<"SqliteError">>, 0, FALSE, <<>>, <<>>))]
                /\ UNCHANGED processed_transactions
           ELSE /\ processed_transactions' =
                       insert(processed_transactions,
                              [txId |-> normalizedTxId, asset |-> "USDT",
                               amount |-> confirmedAmount, rewardKes |-> rewardKes,
                               confirmedAt |-> confirmedAt])
                /\ reqs' = [reqs EXCEPT ![r] =
                               [q EXCEPT !.status = "complete",
                                         !.fetched = TRUE,
                                         !.dbOps = q.dbOps + 1,
                                         !.confirmedAmount = confirmedAmount,
                                         !.confirmedAt = confirmedAt,
                                         !.rewardKes = rewardKes]]
    /\ UNCHANGED <<cacheVars, settings, deposits, cfgResp, nCfg, lastValid,
                   lastAccepted, boots, env, creds, wreqs>>

-----------------------------------------------------------------------------
(* The address shapes of POST /api/withdraw and withdrawUSDT *)

UpperCase == <<"A", "B", "C", "D", "E", "F", "G", "H", "I", "J", "K", "L", "M",
               "N", "O", "P", "Q", "R", "S", "T", "U", "V", "W", "X", "Y", "Z">>
LowerCase == <<"a", "b", "c", "d", "e", "f", "g", "h", "i", "j", "k", "l", "m",
               "n", "o", "p", "q", "r", "s", "t", "u", "v", "w", "x", "y", "z">>

Range(seq) == {seq[i] : i \in DOMAIN seq}

\* the class [A-Za-z1-9]
TrxChars == Range(UpperCase) \cup Range(LowerCase) \cup (Range(Digits) \ {"0"})

\* the class [1-9A-HJ-NP-Za-km-z]
Base58Chars == (Range(Digits) \ {"0"}) \cup (Range(UpperCase) \ {"I", "O"})
               \cup (Range(LowerCase) \ {"l"})

\* a shape test that does not look at the length
IsTrxAddress_AnyLength(str) ==
    /\ Len(str) >= 1
    /\ str[1] = "T"
    /\ \A i \in 2..Len(str) : str[i] \in TrxChars

\* /^T[A-Za-z1-9]{33}$/.test(address)
IsTrxAddress(str) ==
    /\ Len(str) = 34
    /\ str[1] = "T"
    /\ \A i \in 2..34 : str[i] \in TrxChars

\* /^[1-9A-HJ-NP-Za-km-z]{32,44}$/.test(address)
IsSolAddress(str) ==
    /\ Len(str) >= 32
    /\ Len(str) <= 44
    /\ \A i \in 1..Len(str) : str[i] \in Base58Chars

TRX == <<"T", "R", "X">>
SOL == <<"S", "O", "L">>

\* a detection that tests the base-58 shape first
DetectNetwork_SolFirst(address) ==
    IF IsSolAddress(address) THEN SOL
    ELSE IF IsTrxAddress(address) THEN TRX
    ELSE <<>>

\* the if / else if / else of the network detection: the network, or <<>>
\* when the address has neither shape
DetectNetwork(address) ==
    IF IsTrxAddress(address) THEN TRX
    ELSE IF IsSolAddress(address) THEN SOL
    ELSE <<>>

-----------------------------------------------------------------------------
(* The exchange operations of the withdrawal (binanceClient.js) *)

\* the body of GET /api/v3/account: balances tells whether account.balances
\* is an array, usdt whether it has a USDT entry, free is that entry's free
Account(balances, usdt, free) == [balances |-> balances, usdt |-> usdt, free |-> free]

\* getUSDTBalance: ok with the balance, or the error thrown
getUSDTBalance(c, reply, account) ==
    LET data == binanceGet(c, reply) IN
    IF ~data.ok THEN [err |-> data, value |-> NaN]
    ELSE IF ~account.balances
    THEN [err |-> Thrown(<<"Unexpected Binance account response format">>, 0, FALSE,
                         <<>>, <<>>),
          value |-> NaN]
    ELSE IF ~account.usdt THEN [err |-> Resolved, value |-> Num(0)]
    ELSE [err |-> Resolved,
          value |-> IF Truthy(account.free) THEN ToNumber(account.free) ELSE Num(0)]

\* withdrawUSDT before its request: the error thrown when no network is given
\* and the address has neither shape
withdrawUSDTDetected(address, network) ==
    IF network # <<>> THEN network ELSE DetectNetwork(address)

\* the number of network requests withdrawUSDT issues
withdrawUSDTIssued(c, address, network) ==
    IF withdrawUSDTDetected(address, network) = <<>> THEN 0 ELSE Issued(c)

\* withdrawUSDT: the detection, then binancePost
withdrawUSDT(c, address, network, reply) ==
    IF withdrawUSDTDetected(address, network) = <<>>
    THEN Thrown(<<"Unable to detect network from address format">>, 0, FALSE,
                <<>>, <<>>)
    ELSE binancePost(c, reply)

-----------------------------------------------------------------------------
(* POST /api/withdraw *)

\* String.prototype.toLowerCase, on one character
ToLowerChar(c) ==
    IF \E i \in 1..26 : UpperCase[i] = c
    THEN LowerCase[CHOOSE i \in 1..26 : UpperCase[i] = c]
    ELSE c

ToLowerCase(str) == [i \in 1..Len(str) |-> ToLowerChar(str[i])]

\* String.prototype.includes
Includes(str, needle) ==
    \E i \in 1..(Len(str) - Len(needle) + 1) :
        SubSeq(str, i, i + Len(needle) - 1) = needle

\* comparisons of numbers: false when an operand is NaN
NumLt(a, b) == ~a.nan /\ ~b.nan /\ a.v < b.v
NumLe(a, b) == ~a.nan /\ ~b.nan /\ a.v <= b.v

WithdrawBody(address, amount, network) ==
    [address |-> address, amount |-> amount, network |-> network]

\* the 400 guards on the address
AddressRejected(address) ==
    \/ ~Truthy(address)
    \/ address.t # "string"
    \/ Trim(address.s) = <<>>

\* let detectedNetwork = network, then the detection when it is falsy: the
\* network as a string, <<>> when the detection fails
DetectedNetwork(body) ==
    IF Truthy(body.network)
    THEN (IF body.network.t = "string" THEN body.network.s ELSE <<"?">>)
    ELSE DetectNetwork(Trim(body.address.s))

\* network && network !== "TRX" && network !== "SOL"
NetworkRejected(network) ==
    /\ Truthy(network)
    /\ ~(network.t = "string" /\ network.s \in {TRX, SOL})

\* a guard that lets a zero amount through
AmountRejected_AllowsZero(amount) ==
    /\ amount.t \notin {"undefined", "null"}
    /\ \/ ToNumber(amount).nan
       \/ ToNumber(amount).v < 0

\* amount != null, then Number.isNaN(withdrawalAmount) || withdrawalAmount <= 0
AmountRejected(amount) ==
    /\ amount.t \notin {"undefined", "null"}
    /\ \/ ToNumber(amount).nan
       \/ ToNumber(amount).v <= 0

\* the message of the first 400 guard that fires, <<>> when none does
WithdrawRejection(body) ==
    IF AddressRejected(body.address) THEN <<"address is required">>
    ELSE IF DetectedNetwork(body) = <<>> THEN <<"Invalid address format">>
    ELSE IF NetworkRejected(body.network) THEN <<"network must be 'TRX' or 'SOL'">>
    ELSE IF AmountRejected(body.amount)
    THEN <<"amount must be a positive number (in USDT)">>
    ELSE <<>>

IdleWithdraw ==
    [pc |-> "idle",
     body |-> WithdrawBody(JsUndefined, JsUndefined, JsUndefined),
     http |-> 0, status |-> "none", reason |-> "none", message |-> <<>>,
     network |-> <<>>, amount |-> Num(0), requested |-> FALSE,
     availableAmount |-> NaN, observed |-> FALSE,
     minWithdrawalAmount |-> 0, withdrawalId |-> 0, calls |-> 0,
     submissions |-> 0, logged |-> <<>>, failure |-> Resolved]

FundsWords == {<<"i", "n", "s", "u", "f", "f", "i", "c", "i", "e", "n", "t">>,
               <<"b", "a", "l", "a", "n", "c", "e">>,
               <<"f", "u", "n", "d">>}

\* the catch block of the handler
CatchWithdraw(q, err) ==
    LET text == IF err.msg # <<>> THEN err.msg
                ELSE IF err.dataMessage # <<>> THEN err.dataMessage
                ELSE err.message
        errorMsg == ToLowerCase(text)
        done == [q EXCEPT !.pc = "done", !.http = 200, !.status = "failed",
                          !.logged = err.message, !.failure = err]
    IN  IF err.status # 0 /\ err.data
        THEN IF \E word \in FundsWords : Includes(errorMsg, word)
             THEN [done EXCEPT !.reason = "insufficient_funds",
                               !.message = IF err.msg # <<>> THEN err.msg
                                           ELSE <<"Insufficient funds">>]
             ELSE [done EXCEPT !.reason = "withdrawal_error",
                               !.message = IF err.msg # <<>> THEN err.msg
                                           ELSE <<"Withdrawal failed">>]
        ELSE [done EXCEPT !.reason = "withdrawal_error",
                          !.message = <<"Failed to process withdrawal">>]

\* The handler up to its first await: the 400 guards and the call of
\* getUSDTBalance
WithdrawStart(w, body) ==
    /\ wreqs[w].pc = "idle"
    /\ IF w = 1 THEN TRUE ELSE wreqs[w - 1].pc # "idle"
    /\ LET q == [wreqs[w] EXCEPT !.body = body]
           rejection == WithdrawRejection(body)
       IN  wreqs' = [wreqs EXCEPT ![w] =
             IF rejection # <<>>
             THEN [q EXCEPT !.pc = "done", !.http = 400, !.message = rejection]
             ELSE LET v == [q EXCEPT !.network = DetectedNetwork(body),
                                     !.requested =
                                         body.amount.t \notin {"undefined", "null"},
                                     !.amount =
                                         IF body.amount.t \in {"undefined", "null"}
                                         THEN Num(0) ELSE ToNumber(body.amount)]
                  IN  IF Issued(creds) = 0
                      THEN \* the call throws before any request: the catch answers
                           CatchWithdraw(v, getUSDTBalance(creds, ReplyOk,
                                                           Account(FALSE, FALSE,
                                                                   JsUndefined)).err)
                      ELSE [v EXCEPT !.pc = "balance", !.calls = Issued(creds)]]
    /\ UNCHANGED <<cacheVars, settings, processed_transactions, deposits, reqs,
                   cfgResp, nCfg, lastValid, lastAccepted, boots, env, creds>>

\* the gates in the order balance, minimum
WithdrawGate_BalanceFirst(availableAmount, finalAmount, minWithdrawal) ==
    IF NumLe(availableAmount, Num(0)) THEN "no_funds"
    ELSE IF NumLt(availableAmount, finalAmount) THEN "insufficient_funds"
    ELSE IF NumLt(finalAmount, Num(minWithdrawal)) THEN "amount_below_minimum"
    ELSE "submit"

\* gates that let an amount above the balance through
WithdrawGate_NoBalanceGate(availableAmount, finalAmount, minWithdrawal) ==
    IF NumLe(availableAmount, Num(0)) THEN "no_funds"
    ELSE IF NumLt(finalAmount, Num(minWithdrawal)) THEN "amount_below_minimum"
    ELSE "submit"

\* the three gates between the balance and the submission, in their order:
\* availableAmount <= 0, finalAmount < MIN_WITHDRAWAL_AMOUNT,
\* finalAmount > availableAmount
WithdrawGate(availableAmount, finalAmount, minWithdrawal) ==
    IF NumLe(availableAmount, Num(0)) THEN "no_funds"
    ELSE IF NumLt(finalAmount, Num(minWithdrawal)) THEN "amount_below_minimum"
    ELSE IF NumLt(availableAmount, finalAmount) THEN "insufficient_funds"
    ELSE "submit"

\* The handler from the return of getUSDTBalance to its response or to the
\* call of withdrawUSDT
BalanceReturn(w, reply, account) ==
    /\ wreqs[w].pc = "balance"
    /\ LET res == getUSDTBalance(creds, reply, account)
           availableAmount == res.value
           q == [wreqs[w] EXCEPT !.availableAmount = availableAmount,
                                 !.observed = res.err.ok]
           failed == [q EXCEPT !.pc = "done", !.http = 200, !.status = "failed"]
           finalAmount == IF q.requested THEN q.amount ELSE availableAmount
           address == Trim(q.body.address.s)
           gate == WithdrawGate(availableAmount, finalAmount, MIN_WITHDRAWAL_AMOUNT)
       IN  wreqs' = [wreqs EXCEPT ![w] =
             IF ~res.err.ok
             THEN CatchWithdraw(q, res.err)
             ELSE IF gate = "no_funds"
             THEN [failed EXCEPT !.reason = "insufficient_funds",
                                 !.message = <<"Insufficient USDT balance">>]
             ELSE IF gate = "amount_below_minimum"
             THEN [failed EXCEPT !.reason = "amount_below_minimum",
                                 !.message = <<"Withdrawal amount is below minimum">>,
                                 !.amount = finalAmount,
                                 !.minWithdrawalAmount = MIN_WITHDRAWAL_AMOUNT]
             ELSE IF gate = "insufficient_funds"
             THEN [failed EXCEPT !.reason = "insufficient_funds",
                                 !.message =
                                     <<"Requested amount exceeds available balance">>,
                                 !.amount = finalAmount]
             ELSE IF withdrawUSDTIssued(creds, address, q.network) = 0
             THEN CatchWithdraw([q EXCEPT !.amount = finalAmount],
                                withdrawUSDT(creds, address, q.network, ReplyOk))
             ELSE [q EXCEPT !.pc = "submitting",
                            !.amount = finalAmount,
                            !.calls = q.calls + 1,
                            !.submissions = q.submissions + 1]]
    /\ UNCHANGED <<cacheVars, settings, processed_transactions, deposits, reqs,
                   cfgResp, nCfg, lastValid, lastAccepted, boots, env, creds>>

\* The handler from the return of withdrawUSDT to its response
WithdrawReturn(w, reply, id) ==
    /\ wreqs[w].pc = "submitting"
    /\ LET q == wreqs[w]
           res == withdrawUSDT(creds, Trim(q.body.address.s), q.network, reply)
       IN  wreqs' = [wreqs EXCEPT ![w] =
             IF ~res.ok
             THEN CatchWithdraw(q, res)
             ELSE [q EXCEPT !.pc = "done", !.http = 200, !.status = "complete",
                            !.withdrawalId = id,
                            !.message = <<"Withdrawal initiated successfully">>]]
    /\ UNCHANGED <<cacheVars, settings, processed_transactions, deposits, reqs,
                   cfgResp, nCfg, lastValid, lastAccepted, boots, env, creds>>

\* The exchange serves another history from now on
UpstreamChange(h) ==
    /\ h # deposits
    /\ deposits' = h
    /\ UNCHANGED <<cacheVars, settings, processed_transactions, reqs, cfgResp, nCfg,
                   lastValid, lastAccepted, boots, env, creds, wreqs>>

\* The process is stopped and started again on the same database: requests in
\* flight get no answer, and the initialisers run again
Restart ==
    /\ boots' = 1 - boots
    /\ LET up == Startup(settings, env) IN
       /\ KES_PER_USDT' = up.rate
       /\ MIN_DEPOSIT_AMOUNT' = up.minDeposit
       /\ MIN_WITHDRAWAL_AMOUNT' = up.minWithdrawal
       /\ settings' = up.tbl
    /\ reqs' = [r \in DOMAIN reqs |->
                  IF reqs[r].pc = "awaiting"
                  THEN [reqs[r] EXCEPT !.pc = "done", !.status = "aborted"]
                  ELSE reqs[r]]
    /\ lastValid' = [k \in Keys |-> -1]
    /\ cfgResp' = NoResp
    /\ wreqs' = [w \in DOMAIN wreqs |->
                   IF wreqs[w].pc \in {"balance", "submitting"}
                   THEN [wreqs[w] EXCEPT !.pc = "done", !.status = "aborted"]
                   ELSE wreqs[w]]
    /\ UNCHANGED <<processed_transactions, deposits, nCfg, lastAccepted, env, creds>>

-----------------------------------------------------------------------------
(* Inputs and specifications *)

NoRow == [k \in Keys |-> JsNull]
NoEnv == [k \in Keys |-> JsUndefined]

\* contents of the settings table found at the first start
InitialStores == {
    [NoRow EXCEPT !["KES_PER_USDT"] = JsStr(<<"2", "0", "0">>)],
    [NoRow EXCEPT !["MIN_DEPOSIT_AMOUNT"] = JsStr(<<"1", "0">>)]
}

InitialStoresSettings == {
    NoRow,
    [NoRow EXCEPT !["KES_PER_USDT"] = JsStr(<<"2", "0", "0">>),
                  !["MIN_DEPOSIT_AMOUNT"] = JsStr(<<"1", "0">>)],
    [NoRow EXCEPT !["KES_PER_USDT"] = JsStr(<<"a">>),
                  !["MIN_DEPOSIT_AMOUNT"] = JsStr(<<"-", "1">>),
                  !["MIN_WITHDRAWAL_AMOUNT"] = JsStr(<<"0">>)],
    [NoRow EXCEPT !["KES_PER_USDT"] = JsStr(<<" ", "9", " ">>),
                  !["MIN_DEPOSIT_AMOUNT"] = JsStr(<<>>),
                  !["MIN_WITHDRAWAL_AMOUNT"] = JsStr(<<"5">>)]
}

\* environments of the process
Envs == {NoEnv}

EnvsSettings == {
    NoEnv,
    [NoEnv EXCEPT !["KES_PER_USDT"] = JsStr(<<"9">>),
                  !["MIN_DEPOSIT_AMOUNT"] = JsStr(<<"5">>),
                  !["MIN_WITHDRAWAL_AMOUNT"] = JsStr(<<"a">>)],
    [NoEnv EXCEPT !["KES_PER_USDT"] = JsStr(<<"0">>),
                  !["MIN_DEPOSIT_AMOUNT"] = JsStr(<<"-", "1">>),
                  !["MIN_WITHDRAWAL_AMOUNT"] = JsStr(<<>>)]
}

\* request bodies
TxIdBodies == {JsStr(<<" ">>), JsStr(<<" ", "A">>), JsStr(<<OffChain, " ", "A">>)}

RateBodies == {JsNum(150)}
MinDepositBodies == {JsNum(10)}

RateBodiesSettings == {JsUndefined, JsNum(0), JsNum(-1), JsNum(200), JsStr(<<"a">>),
                       JsStr(<<>>), JsStr(<<"9">>), JsBool(TRUE), JsBool(FALSE)}
MinDepositBodiesSettings == {JsUndefined, JsNull, JsNum(-1), JsNum(0), JsNum(10),
                             JsStr(<<"a">>), JsStr(<<>>), JsBool(FALSE)}
MinWithdrawalBodiesSettings == {JsUndefined, JsNull, JsNum(0), JsNum(-1), JsNum(5),
                                JsStr(<<"a">>), JsStr(<<"1", "2">>)}

\* the credentials a process can start with
Configured == Credentials(JsStr(<<"k">>), JsStr(<<"s">>))

CredentialSets == {
    Configured,
    Credentials(JsUndefined, JsStr(<<"s">>)),
    Credentials(JsStr(<<"k">>), JsStr(<<>>))
}

\* bodies of POST /api/deposit/txid, the malformed ones included
TxIdBodiesAll == TxIdBodies \cup {JsUndefined, JsNum(5), JsStr(<<>>)}

\* a missing txId, a malformed one, a blank one and a valid one
TxIdBodiesFew == {JsUndefined, JsNum(5), JsStr(<<" ">>), JsStr(<<" ", "A">>)}

Rep(c, n) == [i \in 1..n |-> c]

\* addresses: both shapes, the first one with and without surrounding blanks,
\* a 34-character address with a character outside both classes, one of the
\* first shape only, one too long, one too short
AddrTrx == <<"T">> \o Rep("A", 33)
AddrTrxOnly == <<"T">> \o Rep("l", 33)
AddrSol == Rep("1", 44)
AddrZero == <<"T">> \o Rep("0", 33)
AddrLong == Rep("1", 45)
AddrShort == <<"T", "x">>

\* bodies of POST /api/withdraw
WithdrawBodies == {
    WithdrawBody(JsStr(AddrTrx), JsUndefined, JsUndefined),
    WithdrawBody(JsStr(<<" ">> \o AddrTrxOnly \o <<" ">>), JsStr(<<"2", "0">>), JsNull),
    WithdrawBody(JsStr(AddrSol), JsNum(20), JsStr(<<>>)),
    WithdrawBody(JsStr(AddrShort), JsNull, JsStr(SOL)),
    WithdrawBody(JsStr(AddrShort), JsUndefined, JsUndefined),
    WithdrawBody(JsStr(AddrZero), JsUndefined, JsUndefined),
    WithdrawBody(JsStr(AddrLong), JsNum(20), JsUndefined),
    WithdrawBody(JsStr(AddrTrx), JsUndefined, JsStr(<<"E", "T", "H">>)),
    WithdrawBody(JsStr(AddrTrx), JsUndefined, JsNum(5)),
    WithdrawBody(JsStr(<<" ">>), JsUndefined, JsStr(TRX)),
    WithdrawBody(JsUndefined, JsNum(20), JsStr(TRX)),
    WithdrawBody(JsNum(5), JsNum(20), JsStr(TRX)),
    WithdrawBody(JsStr(AddrTrx), JsNum(0), JsUndefined),
    WithdrawBody(JsStr(AddrTrx), JsNum(-1), JsStr(TRX)),
    WithdrawBody(JsStr(AddrSol), JsStr(<<"a">>), JsUndefined),
    WithdrawBody(JsStr(AddrSol), JsBool(FALSE), JsStr(SOL))
}

\* bodies of GET /api/v3/account
Accounts == {
    Account(TRUE, TRUE, JsStr(<<"5">>)),
    Account(TRUE, TRUE, JsStr(<<"5", "0">>)),
    Account(TRUE, TRUE, JsStr(<<"0">>)),
    Account(TRUE, TRUE, JsUndefined),
    Account(TRUE, FALSE, JsUndefined),
    Account(FALSE, FALSE, JsUndefined)
}

FundsText == <<"N", "o", " ", "F", "U", "N", "D", "s">>

\* the text of a TLS failure: "alert insufficient security"
TlsText == <<"a", "l", "e", "r", "t", " ", "i", "n", "s", "u", "f", "f", "i",
             "c", "i", "e", "n", "t", " ", "s", "e", "c", "u", "r", "i", "t", "y">>

\* answers of the exchange to the requests of a withdrawal
WithdrawReplies == {
    ReplyOk,
    ReplyNetworkError,
    NetworkFailure(TlsText),
    Reply(400, TRUE, FALSE, FundsText, <<>>),
    Reply(400, TRUE, FALSE, UpstreamText, <<>>),
    Reply(400, TRUE, FALSE, <<>>, OtherText),
    Reply(500, FALSE, FALSE, <<>>, <<>>)
}

\* the id the exchange gives a withdrawal
WithdrawalIds == {7}

MinWithdrawalBodies == {JsNum(25)}

InitWith(stores, envs, credentials) ==
    \E tbl \in stores, e \in envs, c \in credentials :
        LET up == Startup(tbl, e) IN
        /\ KES_PER_USDT = up.rate
        /\ MIN_DEPOSIT_AMOUNT = up.minDeposit
        /\ MIN_WITHDRAWAL_AMOUNT = up.minWithdrawal
        /\ settings = up.tbl
        /\ env = e
        /\ processed_transactions = {}
        /\ deposits \in 1..Len(Histories)
        /\ reqs = [r \in 1..MaxReq |-> IdleReq]
        /\ cfgResp = NoResp
        /\ nCfg = 0
        /\ lastValid = [k \in Keys |-> -1]
        /\ lastAccepted = [k \in Keys |-> -1]
        /\ boots = 0
        /\ creds = c
        /\ wreqs = [w \in 1..MaxW |-> IdleWithdraw]

Init == InitWith(InitialStores, Envs, {Configured})

Next ==
    \/ \E r \in 1..MaxReq, txId \in TxIdBodies : SubmitStart(r, txId, "ok")
    \/ \E r \in 1..MaxReq, outcome \in UpstreamOutcomes, now \in Times :
           HistoryReturn(r, outcome, now, TRUE)
    \/ \E h \in 1..Len(Histories) : UpstreamChange(h)
    \/ \E rate \in RateBodies, storeOk \in BOOLEAN :
           nCfg < MaxUpdates /\ PostRate(rate, storeOk)
    \/ \E v \in MinDepositBodies, storeOk \in BOOLEAN :
           nCfg < MaxUpdates /\ PostMinDeposit(v, storeOk)

\* Claims are submitted while the exchange's history changes and the rate and
\* the minimum deposit are updated
Spec == Init /\ [][Next]_vars

InitSettings ==
    /\ InitWith(InitialStoresSettings, EnvsSettings, {Configured})
    /\ deposits = 1

NextSettings ==
    \/ GetRate
    \/ GetMinDeposit
    \/ GetMinWithdrawal
    \/ \E rate \in RateBodiesSettings, storeOk \in BOOLEAN : PostRate(rate, storeOk)
    \/ \E v \in MinDepositBodiesSettings, storeOk \in BOOLEAN : PostMinDeposit(v, storeOk)
    \/ \E v \in MinWithdrawalBodiesSettings, storeOk \in BOOLEAN :
           PostMinWithdrawal(v, storeOk)
    \/ Restart

\* The settings endpoints alone, on any starting table and environment
SpecSettings == InitSettings /\ [][NextSettings]_vars

InitFaults == InitWith(InitialStores, Envs, CredentialSets)

NextFaults ==
    \/ \E r \in 1..MaxReq, txId \in TxIdBodiesAll, lookup \in StoreOutcomes :
           SubmitStart(r, txId, lookup)
    \/ \E r \in 1..MaxReq, outcome \in UpstreamOutcomesAll, now \in Times,
          insertOk \in BOOLEAN :
           HistoryReturn(r, outcome, now, insertOk)
    \/ \E h \in 1..Len(Histories) : UpstreamChange(h)

\* Claims are submitted with or without credentials, while the exchange and
\* the database can fail in every way
SpecFaults == InitFaults /\ [][NextFaults]_vars

InitWithdraw ==
    /\ InitWith({NoRow}, Envs, CredentialSets)
    /\ deposits = 2

NextWithdraw ==
    \/ \E w \in 1..MaxW, body \in WithdrawBodies : WithdrawStart(w, body)
    \/ \E w \in 1..MaxW, reply \in WithdrawReplies, account \in Accounts :
           BalanceReturn(w, reply, account)
    \/ \E w \in 1..MaxW, reply \in WithdrawReplies, id \in WithdrawalIds :
           WithdrawReturn(w, reply, id)
    \/ \E v \in MinWithdrawalBodies, storeOk \in BOOLEAN :
           nCfg < MaxUpdates /\ PostMinWithdrawal(v, storeOk)
    \/ \E txId \in TxIdBodiesFew : SubmitStart(1, txId, "ok")
    \/ \E outcome \in UpstreamOutcomes, now \in Times :
           HistoryReturn(1, outcome, now, TRUE)

\* Withdrawals, next to one claim, with or without credentials, while the
\* minimum withdrawal is updated
SpecWithdraw == InitWithdraw /\ [][NextWithdraw]_vars

-----------------------------------------------------------------------------
(* Claims *)

Slots == 1..MaxReq

\* the request went through the matching of a fetched history
Matched(q) == q.pc = "done" /\ q.fetched

\* the request gets its answer from a fetched history in this step
Returns(r) == reqs[r].pc = "awaiting" /\ reqs'[r].pc = "done" /\ reqs'[r].fetched

\* the record of the served history the request matches
MatchOf(q) ==
    Histories[deposits][FindMatch(Histories[deposits], NormalizedOf(q),
                                  TxIdTrimmedOf(q))]

\* C1: at most one request per canonical identifier returns status "complete",
\* whatever the interleaving and the submitted form, and no two rows of
\* processed_transactions have the same txId.
C1_SettledAtMostOnce ==
    /\ \A r, s \in Slots :
         /\ r # s
         /\ reqs[r].pc = "done" /\ reqs[r].status = "complete"
         /\ reqs[s].pc = "done" /\ reqs[s].status = "complete"
         => NormalizedOf(reqs[r]) # NormalizedOf(reqs[s])
    /\ \A a, b \in processed_transactions : a.txId = b.txId => a = b

\* two requests in flight together for one identifier in its two forms, both
\* matched: one is complete, the other is not
C1_Witness ==
    \E r, s \in Slots :
        /\ r # s
        /\ Matched(reqs[r]) /\ reqs[r].status = "complete"
        /\ Matched(reqs[s]) /\ reqs[s].status = "failed"
        /\ reqs[s].reason = "verification_error"
        /\ reqs[r].body # reqs[s].body
        /\ NormalizedOf(reqs[r]) = NormalizedOf(reqs[s])

\* C2: of two requests for one identifier that were in flight together (each
\* passed the lookup before the other inserted) and both matched a confirmed
\* deposit that passes the minimum, one returns "complete" and the other
\* "already_used" with the winner's amount and reward.
C2_LoserIsAlreadyUsed ==
    \A r, s \in Slots :
        /\ r # s
        /\ Matched(reqs[r]) /\ Matched(reqs[s])
        /\ NormalizedOf(reqs[r]) = NormalizedOf(reqs[s])
        /\ reqs[r].reason \notin {"not_found", "amount_too_low"}
        /\ reqs[s].reason \notin {"not_found", "amount_too_low"}
        /\ reqs[r].status = "complete"
        => /\ reqs[s].status = "failed"
           /\ reqs[s].reason = "already_used"
           /\ reqs[s].confirmedAmount = reqs[r].confirmedAmount
           /\ reqs[s].rewardKes = reqs[r].rewardKes

\* C3: a request that starts after a request for the same identifier has
\* returned "complete" returns "already_used" with that request's amount, reward
\* and timestamp, and the identifier keeps its single row.
C3_AlreadyUsedAfterSettled ==
    \A r \in Slots :
        reqs[r].settledBefore =>
            /\ reqs[r].pc = "done"
            /\ reqs[r].http = 200
            /\ reqs[r].status = "failed"
            /\ reqs[r].reason = "already_used"
            /\ \E s \in Slots :
                 /\ SettledFor(reqs[s], NormalizedOf(reqs[r]))
                 /\ reqs[r].confirmedAmount = reqs[s].confirmedAmount
                 /\ reqs[r].rewardKes = reqs[s].rewardKes
                 /\ reqs[r].confirmedAt = reqs[s].confirmedAt
                 /\ \A row \in getByTxId(processed_transactions, NormalizedOf(reqs[r])) :
                      /\ row.amount = reqs[s].confirmedAmount
                      /\ row.rewardKes = reqs[s].rewardKes
            /\ Cardinality(getByTxId(processed_transactions, NormalizedOf(reqs[r]))) = 1

\* the later request used the other form, and the rate, the minimum and the
\* history it met differ from those of the settlement
C3_Witness ==
    \E r, s \in Slots :
        /\ reqs[r].settledBefore
        /\ SettledFor(reqs[s], NormalizedOf(reqs[r]))
        /\ reqs[r].body # reqs[s].body
        /\ reqs[r].reason = "already_used"
        /\ reqs[r].rewardKes # RewardKes(reqs[r].confirmedAmount, reqs[r].rateAtSubmit)

\* the canonical form of an identifier carried by an exchange record
CanonicalOf(txId) == NormalizeTxId(Trim(txId))

\* C4: the two forms of an identifier are one claim: once one form is settled
\* the other returns "already_used", and a request whose fetched history holds a
\* confirmed record of the same identifier, in either form, with or without
\* surrounding whitespace, is not answered "not_found".
C4_FormsAreOneClaim ==
    [][\A r \in Slots :
          /\ reqs'[r].settledBefore => reqs'[r].reason = "already_used"
          /\ ( /\ Returns(r)
               /\ \E i \in 1..Len(Histories[deposits]) :
                    /\ Histories[deposits][i].status = 1
                    /\ CanonicalOf(Histories[deposits][i].txId) = NormalizedOf(reqs[r]) )
             => reqs'[r].reason # "not_found"
      ]_vars

\* C5: when a confirmed deposit matches, the request is answered
\* "amount_too_low" and writes no row exactly when the minimum in effect at the
\* match is above 0 and above the amount; otherwise the claim settles: its row
\* is in the table when the handler returns.
C5_MinimumGate ==
    [][\A r \in Slots :
          /\ Returns(r)
          /\ FindMatch(Histories[deposits], NormalizedOf(reqs[r]),
                       TxIdTrimmedOf(reqs[r])) # 0
          => LET amount == MatchOf(reqs[r]).amount
                 id == NormalizedOf(reqs[r])
             IN  IF MIN_DEPOSIT_AMOUNT > 0 /\ amount < MIN_DEPOSIT_AMOUNT
                 THEN /\ reqs'[r].reason = "amount_too_low"
                      /\ reqs'[r].status = "failed"
                      /\ processed_transactions' = processed_transactions
                 ELSE /\ reqs'[r].reason # "amount_too_low"
                      /\ getByTxId(processed_transactions', id) # {}
                      /\ \/ reqs'[r].status = "complete"
                         \/ getByTxId(processed_transactions, id) # {}
      ]_vars

\* with the minimum at 10 throughout, an amount of 9 was refused, and the same
\* identifier, submitted again when the exchange showed 10, settled
C5_Witness ==
    \E r, s \in Slots :
        /\ r < s
        /\ reqs[r].pc = "done" /\ reqs[r].reason = "amount_too_low"
        /\ reqs[r].minDepositAmount = 10 /\ reqs[r].confirmedAmount = 9
        /\ reqs[s].pc = "done" /\ reqs[s].status = "complete"
        /\ reqs[s].confirmedAmount = 10
        /\ NormalizedOf(reqs[s]) = NormalizedOf(reqs[r])
        /\ MIN_DEPOSIT_AMOUNT = 10 /\ nCfg = 0

\* C6: the reward a "complete" response carries, and the row stores, is the
\* amount times the rate in effect when the history call has returned; rows and
\* given responses never change afterwards.
C6_RewardAtMatchRate ==
    [][/\ \A r \in Slots :
            reqs[r].pc = "awaiting" /\ reqs'[r].status = "complete"
            => /\ reqs'[r].rewardKes = reqs'[r].confirmedAmount * KES_PER_USDT
               /\ \E row \in processed_transactions' \ processed_transactions :
                    /\ row.txId = NormalizedOf(reqs[r])
                    /\ row.amount = reqs'[r].confirmedAmount
                    /\ row.rewardKes = reqs'[r].rewardKes
       /\ \A row \in processed_transactions : row \in processed_transactions'
       /\ \A r \in Slots : reqs[r].pc = "done" => reqs'[r] = reqs[r]
      ]_vars

\* a request submitted at rate 200, whose rate was updated to 150 while it
\* waited, was paid 9 * 150 = 1350
C6_Witness ==
    \E r \in Slots :
        /\ reqs[r].status = "complete"
        /\ reqs[r].rateAtSubmit = 200
        /\ reqs[r].confirmedAmount = 9 /\ reqs[r].rewardKes = 1350
        /\ \E row \in processed_transactions :
             row.txId = NormalizedOf(reqs[r]) /\ row.rewardKes = 1350

\* the in-memory value of a key after the step
CacheNext(key) ==
    CASE key = "KES_PER_USDT" -> KES_PER_USDT'
      [] key = "MIN_DEPOSIT_AMOUNT" -> MIN_DEPOSIT_AMOUNT'
      [] key = "MIN_WITHDRAWAL_AMOUNT" -> MIN_WITHDRAWAL_AMOUNT'

\* the step is a request to a settings endpoint
SettingsStep(method) == nCfg' # nCfg /\ cfgResp'.method = method

\* C7: an update changes the in-memory value only once the table holds it: a
\* failed write leaves the in-memory value as it was.
C7_StoreBeforeMemory ==
    [][SettingsStep("POST") =>
         \A k \in Keys :
            CacheNext(k) # Cache(k) =>
                getSetting(settings', k) = JsStr(NumberToString(CacheNext(k)))
      ]_vars

\* C8: for each key the in-memory value is the numeric value of the table's row
C8_CacheEqualsStore ==
    \A k \in Keys :
        /\ getSetting(settings, k).t = "string"
        /\ ToNumber(getSetting(settings, k)) = Num(Cache(k))

\* the value breaks the rule of its key; a value counts as the number the
\* language converts it to
BreaksRule(key, val) ==
    CASE key = "KES_PER_USDT" -> ToNumber(val).nan \/ ToNumber(val).v <= 0
      [] key = "MIN_DEPOSIT_AMOUNT" ->
           val.t \in {"undefined", "null"} \/ ToNumber(val).nan \/ ToNumber(val).v < 0
      [] key = "MIN_WITHDRAWAL_AMOUNT" -> ToNumber(val).nan \/ ToNumber(val).v <= 0

C10_RestartKeepsUpdate ==
    [][boots' # boots =>
         \A k \in Keys : lastAccepted[k] # -1 => CacheNext(k) = lastAccepted[k]
      ]_vars

\* the process has just restarted after a rate update and a minimum-deposit
\* update, and holds their values, not the environment's
C10_Witness ==
    /\ boots = 1
    /\ cfgResp = NoResp
    /\ \A k \in Keys : lastValid[k] = -1
    /\ lastAccepted["KES_PER_USDT"] = 200 /\ KES_PER_USDT = 200
    /\ lastAccepted["MIN_DEPOSIT_AMOUNT"] = 0 /\ MIN_DEPOSIT_AMOUNT = 0
    /\ env["KES_PER_USDT"] = JsStr(<<"9">>)
    /\ env["MIN_DEPOSIT_AMOUNT"] = JsStr(<<"5">>)

WSlots == 1..MaxW

\* the body carries a txId that is a string with something left after trim
NonBlankTxId(body) == body.t = "string" /\ Trim(body.s) # <<>>

DepositReasons == {"already_used", "not_found", "amount_too_low", "region_restricted",
                   "verification_error"}

\* C11: every POST /api/deposit/txid with a non-blank txId ends with HTTP 200
\* and a body that is status "complete", or status "failed" with one of the
\* five reasons, whichever exchange or database operation fails on the way,
\* the lookup of a prior settlement and the insert included.
C11_AlwaysStructuredAnswer ==
    \A r \in Slots :
        reqs[r].pc = "done" /\ NonBlankTxId(reqs[r].body)
        => /\ reqs[r].http = 200
           /\ \/ reqs[r].status = "complete"
              \/ reqs[r].status = "failed" /\ reqs[r].reason \in DepositReasons

\* C12: a txId that has already been settled is rejected with HTTP 400, the
\* response carrying the stored confirmedAmount, rewardKes and confirmedAt.
C12_AlreadyUsedIs400 ==
    \A r \in Slots :
        reqs[r].pc = "done" /\ reqs[r].reason = "already_used"
        => /\ reqs[r].http = 400
           /\ \E row \in processed_transactions :
                  /\ row.txId = NormalizedOf(reqs[r])
                  /\ reqs[r].confirmedAmount = row.amount
                  /\ reqs[r].rewardKes = row.rewardKes
                  /\ reqs[r].confirmedAt = row.confirmedAt

\* the value is absent from the body
Absent(val) == val.t \in {"undefined", "null"}

\* no network is given: the field is absent or empty
NoNetwork(body) == Absent(body.network) \/ body.network = JsStr(<<>>)

\* the address is a string with something left after trim
NonBlankAddress(body) == body.address.t = "string" /\ Trim(body.address.s) # <<>>

\* the trimmed address has the shape of the first family: T and 33 characters
\* that are letters or digits 1 to 9
FamilyA(str) ==
    /\ Len(str) = 34
    /\ Head(str) = "T"
    /\ \A i \in 2..Len(str) : str[i] \in TrxChars

\* the shape of the second family: 32 to 44 base-58 characters
FamilyB(str) ==
    /\ Len(str) \in 32..44
    /\ \A i \in 1..Len(str) : str[i] \in Base58Chars

\* the withdrawal body is invalid input
InvalidWithdraw(body) ==
    \/ ~NonBlankAddress(body)
    \/ ~NoNetwork(body) /\ body.network \notin {JsStr(TRX), JsStr(SOL)}
    \/ /\ NoNetwork(body)
       /\ ~FamilyA(Trim(body.address.s))
       /\ ~FamilyB(Trim(body.address.s))
    \/ /\ ~Absent(body.amount)
       /\ \/ ToNumber(body.amount).nan
          \/ ToNumber(body.amount).v <= 0

\* C13: a submit-claim with a missing, non-string or blank txId, and a
\* withdrawal with a blank address, an unsupported network, an unclassifiable
\* address without a network or a non-positive or non-numeric amount, return
\* HTTP 400 without a statement on the database and without a request to the
\* exchange; the tables are as they were.
C13_InvalidInputBeforeIO ==
    [][/\ \A r \in Slots :
            reqs[r].pc = "idle" /\ reqs'[r].pc # "idle" /\ ~NonBlankTxId(reqs'[r].body)
            => /\ reqs'[r].pc = "done" /\ reqs'[r].http = 400
               /\ reqs'[r].dbOps = 0 /\ reqs'[r].calls = 0
               /\ UNCHANGED <<processed_transactions, settings>>
       /\ \A w \in WSlots :
            wreqs[w].pc = "idle" /\ wreqs'[w].pc # "idle" /\ InvalidWithdraw(wreqs'[w].body)
            => /\ wreqs'[w].pc = "done" /\ wreqs'[w].http = 400
               /\ wreqs'[w].calls = 0 /\ wreqs'[w].submissions = 0
               /\ UNCHANGED <<processed_transactions, settings>>
      ]_vars

\* a blank txId and a withdrawal with an amount of zero have both been refused
\* by a process that has its credentials
C13_Witness ==
    /\ ~NotConfigured(creds)
    /\ \E r \in Slots :
           /\ reqs[r].pc = "done" /\ reqs[r].http = 400
           /\ reqs[r].body = JsStr(<<" ">>)
    /\ \E w \in WSlots :
           /\ wreqs[w].pc = "done" /\ wreqs[w].http = 400
           /\ NonBlankAddress(wreqs[w].body)
           /\ wreqs[w].body.amount = JsNum(0)

\* the balance query of the request returns in this step
BalanceReturns(w) == wreqs[w].pc = "balance" /\ wreqs'[w].pc # "balance"

\* the amount the request resolves to: the one supplied, or the whole balance
ResolvedAmount(w) ==
    IF wreqs'[w].requested THEN wreqs[w].amount ELSE wreqs'[w].availableAmount

\* C14: when the balance observed by a withdrawal is positive and the resolved
\* amount is below the minimum withdrawal, the answer is amount_below_minimum
\* and nothing is submitted, whether or not the amount exceeds the balance.
C14_ThresholdBeforeBalance ==
    [][\A w \in WSlots :
           /\ BalanceReturns(w)
           /\ wreqs'[w].observed
           /\ wreqs'[w].availableAmount.v > 0
           /\ ResolvedAmount(w).v < MIN_WITHDRAWAL_AMOUNT
           => /\ wreqs'[w].pc = "done"
              /\ wreqs'[w].status = "failed"
              /\ wreqs'[w].reason = "amount_below_minimum"
              /\ wreqs'[w].submissions = 0
              /\ wreqs'[w].calls = 1
      ]_vars

\* an amount of 20 was asked with a balance of 5 and a minimum of 25: the
\* answer is amount_below_minimum
C14_Witness ==
    \E w \in WSlots :
        /\ wreqs[w].pc = "done"
        /\ wreqs[w].reason = "amount_below_minimum"
        /\ wreqs[w].requested
        /\ wreqs[w].amount.v = 20
        /\ wreqs[w].availableAmount.v = 5
        /\ wreqs[w].minWithdrawalAmount = 25
        /\ wreqs[w].submissions = 0

\* C15: without a network, an address of the first shape is classified TRX,
\* a base-58 address of 32 to 44 characters (44 included) that is not of the
\* first shape is classified SOL, and an address of neither shape is refused
\* with HTTP 400.
C15_Classification ==
    \A w \in WSlots :
        LET q == wreqs[w]
            a == Trim(q.body.address.s)
        IN  q.pc # "idle" /\ NonBlankAddress(q.body) /\ NoNetwork(q.body)
            => /\ FamilyA(a) =>
                    /\ q.message # <<"Invalid address format">>
                    /\ q.http # 400 => q.network = TRX
               /\ FamilyB(a) /\ ~FamilyA(a) =>
                    /\ q.message # <<"Invalid address format">>
                    /\ q.http # 400 => q.network = SOL
               /\ ~FamilyA(a) /\ ~FamilyB(a) =>
                    /\ q.pc = "done" /\ q.http = 400
                    /\ q.message = <<"Invalid address format">>

\* a withdrawal to a 44-character base-58 address without a network has been
\* submitted on SOL
C15_Witness ==
    \E w \in WSlots :
        /\ wreqs[w].pc = "done" /\ wreqs[w].status = "complete"
        /\ NoNetwork(wreqs[w].body)
        /\ Len(Trim(wreqs[w].body.address.s)) = 44
        /\ wreqs[w].network = SOL

\* the API key or the secret is absent
CredentialsMissing == ~Truthy(creds.key) \/ ~Truthy(creds.secret)

\* the claim has to ask the exchange: its txId is valid and not settled yet
TouchesExchange(q) == NonBlankTxId(q.body) /\ q.reason # "already_used"

\* C16: without credentials, a submit-claim for an identifier not yet settled
\* and a withdrawal are answered with a server error (HTTP 5xx).
C16_NotConfiguredIs5xx ==
    CredentialsMissing =>
        /\ \A r \in Slots :
               reqs[r].pc = "done" /\ TouchesExchange(reqs[r]) => reqs[r].http >= 500
        /\ \A w \in WSlots :
               wreqs[w].pc = "done" /\ ~InvalidWithdraw(wreqs[w].body)
               => wreqs[w].http >= 500

\* C17: without the API key or the secret, the deposit-history call, the
\* balance query and the withdrawal submission fail at once with the
\* not-configured error and no request goes to the exchange.
C17_NotConfiguredBeforeNetwork ==
    CredentialsMissing =>
        /\ \A r \in Slots :
               reqs[r].pc # "idle" /\ TouchesExchange(reqs[r])
               => /\ reqs[r].pc = "done"
                  /\ reqs[r].calls = 0
                  /\ reqs[r].logged = NotConfiguredMessage
        /\ \A w \in WSlots :
               wreqs[w].pc # "idle" /\ ~InvalidWithdraw(wreqs[w].body)
               => /\ wreqs[w].pc = "done"
                  /\ wreqs[w].calls = 0
                  /\ wreqs[w].submissions = 0
                  /\ wreqs[w].logged = NotConfiguredMessage

\* with a key and an empty secret, a claim and a withdrawal have both failed
\* on the guard of the client
C17_Witness ==
    /\ Truthy(creds.key) /\ ~Truthy(creds.secret)
    /\ \E r \in Slots :
           /\ reqs[r].pc = "done" /\ TouchesExchange(reqs[r])
           /\ reqs[r].logged = NotConfiguredMessage
    /\ \E w \in WSlots :
           /\ wreqs[w].pc = "done" /\ ~InvalidWithdraw(wreqs[w].body)
           /\ wreqs[w].logged = NotConfiguredMessage

\* the record carries the identifier of the request in one of its two forms,
\* compared raw or trimmed
CarriesId(d, q) ==
    \E form \in {TxIdTrimmedOf(q), NormalizedOf(q)} :
        d.txId = form \/ Trim(d.txId) = form

\* the confirmed records of the served history that carry the identifier
ConfirmedRecords(q) ==
    {i \in DOMAIN Histories[deposits] :
        CarriesId(Histories[deposits][i], q) /\ Histories[deposits][i].status = 1}

\* C18: a request writes a row only when the history it fetched has a
\* confirmed record carrying its identifier, and the row has that record's
\* amount; when the fetched history has no such record, be it that records
\* carry the identifier with another status, the answer is not_found and
\* nothing is written.
C18_SettlesOnlyConfirmed ==
    [][\A r \in Slots :
           /\ /\ reqs[r].pc = "awaiting" /\ reqs'[r].pc = "done"
              /\ processed_transactions' # processed_transactions
              => \E i \in ConfirmedRecords(reqs[r]) :
                     \E row \in processed_transactions' \ processed_transactions :
                         /\ row.txId = NormalizedOf(reqs[r])
                         /\ row.amount = Histories[deposits][i].amount
           /\ Returns(r) /\ ConfirmedRecords(reqs[r]) = {}
              => /\ reqs'[r].status = "failed"
                 /\ reqs'[r].reason = "not_found"
                 /\ UNCHANGED processed_transactions
      ]_vars

\* the history holds the identifier with status 0 only, and the request has
\* been answered not_found with nothing written
C18_Witness ==
    /\ deposits = 4
    /\ processed_transactions = {}
    /\ \E r \in Slots :
           /\ Matched(reqs[r])
           /\ reqs[r].reason = "not_found"
           /\ \E i \in DOMAIN Histories[deposits] :
                  /\ CarriesId(Histories[deposits][i], reqs[r])
                  /\ Histories[deposits][i].status # 1
           /\ ConfirmedRecords(reqs[r]) = {}

UpstreamMessage(reply) ==
    IF reply.data /\ reply.msg # <<>> THEN reply.msg
    ELSE IF reply.data THEN reply.message
    ELSE <<>>

\* the deposit-history call of the request fails in this step
HistoryFails(r) ==
    /\ reqs[r].pc = "awaiting" /\ reqs'[r].pc = "done"
    /\ reqs'[r].reply.status # 200 \/ ~reqs'[r].reply.array

\* C20: when the deposit-history call fails (no answer, a status other than
\* 2xx, a body that is not an array) the answer is verification_error with
\* the exchange's message when it sent one, except that status 451 gives
\* region_restricted; no row is written and the call is made once.
C20_HistoryFailure ==
    [][\A r \in Slots :
           HistoryFails(r)
           => /\ reqs'[r].http = 200 /\ reqs'[r].status = "failed"
              /\ IF reqs'[r].reply.status = 451
                 THEN reqs'[r].reason = "region_restricted"
                 ELSE /\ reqs'[r].reason = "verification_error"
                      /\ UpstreamMessage(reqs'[r].reply) # <<>>
                         => reqs'[r].message = UpstreamMessage(reqs'[r].reply)
              /\ UNCHANGED processed_transactions
              /\ reqs'[r].calls = 1
      ]_vars

\* one request was answered 400 by the exchange with a message and carries
\* it, another was answered 451
C20_Witness ==
    \E r, s \in Slots :
        /\ reqs[r].pc = "done" /\ reqs[r].reply.status = 400
        /\ reqs[r].reason = "verification_error"
        /\ reqs[r].message = UpstreamText
        /\ reqs[s].pc = "done" /\ reqs[s].reply.status = 451
        /\ reqs[s].reason = "region_restricted"

\* the text of a failure: the exchange's message when its answer has one,
\* the error's own message otherwise
ErrorText(err) ==
    IF err.msg # <<>> THEN err.msg
    ELSE IF err.dataMessage # <<>> THEN err.dataMessage
    ELSE err.message

\* the message the exchange sent with the failure, <<>> when it sent none
ExchangeMessage(err) == IF err.msg # <<>> THEN err.msg ELSE err.dataMessage

\* the text speaks of funds, whatever the case of its letters
SpeaksOfFunds(text) ==
    \E word \in FundsWords : Includes(ToLowerCase(text), word)

\* C21: a withdrawal whose exchange call failed is answered
\* insufficient_funds when the error's message contains "insufficient",
\* "balance" or "fund" in any case, and withdrawal_error with the exchange's
\* message otherwise, whether or not the failure has a response body.
C21_FailureClassification ==
    \A w \in WSlots :
        wreqs[w].pc = "done" /\ ~wreqs[w].failure.ok
        => IF SpeaksOfFunds(ErrorText(wreqs[w].failure))
           THEN wreqs[w].reason = "insufficient_funds"
           ELSE /\ wreqs[w].reason = "withdrawal_error"
                /\ ExchangeMessage(wreqs[w].failure) # <<>>
                   => wreqs[w].message = ExchangeMessage(wreqs[w].failure)

\* C22, as stated: without a network, an address that has both shapes is
\* refused like an address that has neither: it is never given to one family.
C22_BothShapesRefused ==
    \A w \in WSlots :
        LET q == wreqs[w]
            a == Trim(q.body.address.s)
        IN  /\ q.pc # "idle" /\ NonBlankAddress(q.body) /\ NoNetwork(q.body)
            /\ FamilyA(a) = FamilyB(a)
            => /\ q.pc = "done" /\ q.http = 400
               /\ q.message = <<"Invalid address format">>
               /\ q.network = <<>>

\* C22, amended: without a network, an address that has neither shape is
\* refused; an address that has both shapes is not refused for its format and,
\* unless the request is refused for its amount, is taken as an address of
\* the first family, TRX.
C22_BothShapesToFirstFamily ==
    \A w \in WSlots :
        LET q == wreqs[w]
            a == Trim(q.body.address.s)
        IN  /\ q.pc # "idle" /\ NonBlankAddress(q.body) /\ NoNetwork(q.body)
            /\ FamilyA(a) = FamilyB(a)
            => IF FamilyA(a)
               THEN /\ q.message # <<"Invalid address format">>
                    /\ q.http # 400 => q.network = TRX
               ELSE /\ q.pc = "done" /\ q.http = 400
                    /\ q.message = <<"Invalid address format">>
                    /\ q.network = <<>>

\* a withdrawal to an address of 34 base-58 characters starting with T,
\* without a network, has been submitted on TRX
C22_Witness ==
    \E w \in WSlots :
        /\ wreqs[w].pc = "done" /\ wreqs[w].status = "complete"
        /\ NoNetwork(wreqs[w].body)
        /\ FamilyA(Trim(wreqs[w].body.address.s))
        /\ FamilyB(Trim(wreqs[w].body.address.s))
        /\ wreqs[w].network = TRX
        /\ wreqs[w].submissions = 1

\* the strings of at most MaxStr characters over blank, "A" and the word of
\* the prefix
Strings == UNION {[1..k -> {" ", "A", OffChain}] : k \in 0..MaxStr}

\* the identifier stored for a submitted string
CanonicalForm(str) == NormalizeTxId(Trim(str))

\* the submitted string matches the record's identifier: in its trimmed or
\* its prefixed form, against the identifier raw or trimmed
MatchesRecord(recordTxId, str) ==
    /\ Trim(str) # <<>>
    /\ \E form \in {Trim(str), CanonicalForm(str)} :
           recordTxId = form \/ Trim(recordTxId) = form

\* the identifiers a record of the exchange can carry: the strings above and
\* those of the histories
RecordTxIds ==
    Strings \cup UNION {{Histories[h][i].txId : i \in DOMAIN Histories[h]} : h \in DOMAIN Histories}

\* all the strings that match one record have the same stored identifier
OneCanonicalForm ==
    \A recordTxId \in RecordTxIds :
        \A s1, s2 \in Strings :
            MatchesRecord(recordTxId, s1) /\ MatchesRecord(recordTxId, s2)
            => CanonicalForm(s1) = CanonicalForm(s2)

\* the identifiers under which the strings that match the record are stored
CanonicalFormsOf(recordTxId) ==
    {CanonicalForm(str) : str \in {s \in Strings : MatchesRecord(recordTxId, s)}}

\* C23: every stored identifier begins with the prefix, all the strings that
\* match one upstream record have the same stored identifier, and at any
\* time no two rows are stored for one record.
C23_OneRowPerRecord ==
    /\ OneCanonicalForm
    /\ \A row \in processed_transactions : StartsWith(row.txId, OFF_CHAIN_PREFIX)
    /\ \A row1, row2 \in processed_transactions :
           row1 # row2
           => \A recordTxId \in RecordTxIds :
                  ~({row1.txId, row2.txId} \subseteq CanonicalFormsOf(recordTxId))

\* the record "Off-chain transfer A" was claimed as " A" and as
\* "Off-chain transfer A": one request is complete, the other is not, and
\* there is one row
C23_Witness ==
    /\ deposits = 2
    /\ Cardinality(processed_transactions) = 1
    /\ \E r, s \in Slots :
           /\ reqs[r].pc = "done" /\ reqs[r].status = "complete"
           /\ reqs[s].pc = "done" /\ reqs[s].status = "failed"
           /\ reqs[s].reason \in {"already_used", "verification_error"}
           /\ reqs[r].body # reqs[s].body
           /\ MatchesRecord(Histories[2][1].txId, reqs[r].body.s)
           /\ MatchesRecord(Histories[2][1].txId, reqs[s].body.s)

\* C24: the exchange rate in memory is positive, the minimum deposit is not
\* negative and the minimum withdrawal is positive, in every state: after
\* startup from any table and environment, and after any updates, accepted,
\* rejected or failing at the write.
C24_ConfigurationInRange ==
    /\ KES_PER_USDT > 0
    /\ MIN_DEPOSIT_AMOUNT >= 0
    /\ MIN_WITHDRAWAL_AMOUNT > 0

\* the process started with an environment whose three values are out of
\* range or empty, a rate update was accepted, and a minimum withdrawal of 0
\* has just been refused: the minimum withdrawal is still the default
C24_Witness ==
    /\ env["KES_PER_USDT"] = JsStr(<<"0">>)
    /\ env["MIN_DEPOSIT_AMOUNT"] = JsStr(<<"-", "1">>)
    /\ env["MIN_WITHDRAWAL_AMOUNT"] = JsStr(<<>>)
    /\ lastAccepted["KES_PER_USDT"] = 200 /\ KES_PER_USDT = 200
    /\ cfgResp.method = "POST" /\ cfgResp.key = "MIN_WITHDRAWAL_AMOUNT"
    /\ cfgResp.body = JsNum(0) /\ cfgResp.http = 400
    /\ MIN_DEPOSIT_AMOUNT = DefaultMinDeposit
    /\ MIN_WITHDRAWAL_AMOUNT = DefaultMinWithdrawal

=============================================================================
